---- MODULE Spec2Model ----
(***************************************************************************)
(* The patient table of saude-online-admin-web                             *)
(* (src/components/patients-table.tsx): the new-patient form with its zod *)
(* schema, the register and delete mutations with their invalidation of   *)
(* the "patients" query, the delete confirmation dialog and the document  *)
(* cell.                                                                   *)
(*                                                                         *)
(* Strings are sequences of one-character strings.  A number field holds  *)
(* [nan, val]: react-hook-form's valueAsNumber gives NaN for an empty     *)
(* field, and a type="number" input without a step attribute submits      *)
(* whole numbers only.                                                     *)
(***************************************************************************)
EXTENDS Integers, Sequences, FiniteSets, Bags, TLC

VARIABLES
    form,           \* react-hook-form field values: name, age, document, phone
    errors,         \* formState.errors: one message per field, "" for none
    isSubmitted,    \* formState.isSubmitted (revalidation on change starts after it)
    isSubmitting,   \* formState.isSubmitting, the submit button's `disabled`
    isPopoverOpen,  \* useState(false), line 115
    regs,           \* bag of register calls on the network: [payload, st]
    dels,           \* bag of delete calls on the network: [id, st]
    deleteUi,       \* the row whose actions menu / confirmation dialog is open
    store,          \* the remote store: ids of the patients it holds
    nextId,         \* the id the remote store assigns next
    rendered,       \* the `data` prop: the list the table renders
    fetching,       \* the "patients" query's fetch: "idle", "sent", "answered"
    fetchSnap,      \* the list the remote store answered the fetch with
    stale,          \* the "patients" query is invalidated and not yet refetched
    toast,          \* the notification shown last
    invalidations,  \* invalidateQueries(['patients']) calls, modulo InvalidationWrap
    docInput,       \* document pipeline: the string under test
    docStage,       \* document pipeline: "typing", "rejected", "accepted", "stored", "shown"
    docStored,      \* document pipeline: the document the register call carried
    docLabel        \* document pipeline: what the document cell shows

vars == <<form, errors, isSubmitted, isSubmitting, isPopoverOpen, regs, dels,
          deleteUi, store, nextId, rendered, fetching, fetchSnap, stale, toast,
          invalidations, docInput, docStage, docStored, docLabel>>

formVars == <<form, errors, isSubmitted, isSubmitting, isPopoverOpen>>
netVars == <<regs, dels, store, nextId>>
queryVars == <<rendered, fetching, fetchSnap, stale, invalidations>>
docVars == <<docInput, docStage, docStored, docLabel>>

----
(* Bounds of the model *)

\* ids the remote store can ever assign
MaxId == 2
\* patients in the list when the table is mounted
InitPatients == 1
\* delete calls on the network at one time
MaxInFlight == 2
\* the invalidation counter counts modulo this
InvalidationWrap == 2
\* longest string the document validator is tried on
MaxStrLen == 12

----
(* Program constants *)

NameMinLen == 3
AgeMin == 0
AgeMax == 120
CpfDigits == 11
RgDigits == 9
PhoneDigits == 11
RgLabelLen == 9
DocumentMaxLength == 11

MsgName == "Digite o nome completo."
MsgAgeNaN == "Expected number, received nan"
MsgAgeMin == "Idade inválida."
MsgAgeMax == "Idade muito alta."
MsgDocument == "Documento deve ser um CPF ou RG válido."
MsgPhone == "Telefone deve ser um número de celular válido."
NoMsg == ""

----
(* Strings *)

Digits == {"0", "1", "2", "3", "4", "5", "6", "7", "8", "9"}

\* \d
IsDigit(c) == c \in Digits

\* s.replace(/\D/g, '')
StripNonDigits(s) == SelectSeq(s, IsDigit)

\* /^\d{n}$/.test(s)
TestDigitsRegex(s, n) ==
    /\ Len(s) = n
    /\ \A i \in 1..Len(s) : IsDigit(s[i])

\* n copies of the character c
Rep(c, n) == [i \in 1..n |-> c]

----
(* The zod schema newPatientForm *)

\* a mutant that tests the raw string instead of the cleaned one
DocumentRuleRaw(doc) ==
    TestDigitsRegex(doc, CpfDigits) \/ TestDigitsRegex(doc, RgDigits)

\* document: the refine predicate
DocumentRule(doc) ==
    LET cleanedDoc == StripNonDigits(doc)
    IN  TestDigitsRegex(cleanedDoc, CpfDigits) \/ TestDigitsRegex(cleanedDoc, RgDigits)

\* phone: the refine predicate; !phone holds for undefined and for ''
PhoneRule(phone) ==
    IF phone = <<>> THEN TRUE
    ELSE Len(StripNonDigits(phone)) = PhoneDigits

\* a mutant schema with min(2)
NameErrorMin2(name) == IF Len(name) >= NameMinLen - 1 THEN NoMsg ELSE MsgName

\* name: z.string().min(3, ...)
NameError(name) == IF Len(name) >= NameMinLen THEN NoMsg ELSE MsgName

\* z.number() refuses NaN; int() holds of every whole number; then min and max
AgeError(age) ==
    IF age.nan THEN MsgAgeNaN
    ELSE IF age.val < AgeMin THEN MsgAgeMin
    ELSE IF age.val > AgeMax THEN MsgAgeMax
    ELSE NoMsg

DocumentError(doc) == IF DocumentRule(doc) THEN NoMsg ELSE MsgDocument

PhoneError(phone) == IF PhoneRule(phone) THEN NoMsg ELSE MsgPhone

NoErrors == [name |-> NoMsg, age |-> NoMsg, document |-> NoMsg, phone |-> NoMsg]

\* zodResolver(newPatientForm): every field is parsed, each failing field gets
\* its message
Resolve(f) ==
    [name |-> NameError(f.name),
     age |-> AgeError(f.age),
     document |-> DocumentError(f.document),
     phone |-> PhoneError(f.phone)]

----
(* The document cell *)

\* columns[document].cell: the label's prefix, the mask applied and its argument
DocumentCell(document) ==
    IF Len(document) = RgLabelLen
    THEN [prefix |-> "RG:", mask |-> "rgMask", arg |-> document]
    ELSE [prefix |-> "CPF:", mask |-> "cpfMask", arg |-> document]

----
(* Inputs *)

NaN == [nan |-> TRUE, val |-> 0]
Num(n) == [nan |-> FALSE, val |-> n]

\* what the user types into the fields when the form's rules are examined
NameInputs == {<<"J", "o">>, <<"A", "n", "a">>}
AgeInputs == {NaN, Num(-1), Num(0), Num(120), Num(121)}
DocumentInputs == {Rep("1", 9), Rep("1", 7) \o <<"-">> \o Rep("1", 2), Rep("1", 10),
                   Rep("1", 11)}
PhoneInputs == {<<>>, Rep("9", 10), Rep("9", 11)}

\* what the user types when the whole table is examined
NameFew == {<<"A", "n", "a">>}
AgeFew == {Num(34)}
DocumentFew == {Rep("1", 9)}
PhoneFew == {<<>>, Rep("9", 11)}

\* the errors the remote calls fail with
Errors == {"E409", "E500"}

\* the form after useForm() without defaultValues, and after reset()
EmptyForm == [name |-> <<>>, age |-> NaN, document |-> <<>>, phone |-> <<>>]

NoToast == [variant |-> "none", description |-> ""]
ToastRegistered == [variant |-> "default", description |-> "Paciente cadastrado!"]
ToastDeleted == [variant |-> "default", description |-> "Paciente excluído"]

\* axiosErrorHandler(error): the message of the error
AxiosErrorHandler(e) == "erro " \o e

ToastError(e) == [variant |-> "destructive", description |-> AxiosErrorHandler(e)]

UiClosed == [row |-> 0, step |-> "closed"]

One(x) == SetToBag({x})

----
(* Initial state: the table mounted with an already fetched list *)

DocIdle ==
    /\ docInput = <<>>
    /\ docStage = "off"
    /\ docStored = <<>>
    /\ docLabel = [prefix |-> "", mask |-> "", arg |-> <<>>]

Init ==
    /\ form = EmptyForm
    /\ errors = NoErrors
    /\ isSubmitted = FALSE
    /\ isSubmitting = FALSE
    /\ isPopoverOpen = FALSE
    /\ regs = EmptyBag
    /\ dels = EmptyBag
    /\ deleteUi = UiClosed
    /\ store = 1..InitPatients
    /\ nextId = InitPatients + 1
    /\ rendered = 1..InitPatients
    /\ fetching = "idle"
    /\ fetchSnap = {}
    /\ stale = FALSE
    /\ toast = NoToast
    /\ invalidations = 0
    /\ DocIdle

----
(* The popover and the form fields *)

\* Button onClick, line 326
OpenPopover ==
    /\ ~isPopoverOpen
    /\ isPopoverOpen' = TRUE
    /\ UNCHANGED <<form, errors, isSubmitted, isSubmitting, netVars, deleteUi,
                   queryVars, toast, docVars>>

\* Popover onOpenChange(false): Escape or a click outside, line 320
ClosePopover ==
    /\ isPopoverOpen
    /\ isPopoverOpen' = FALSE
    /\ UNCHANGED <<form, errors, isSubmitted, isSubmitting, netVars, deleteUi,
                   queryVars, toast, docVars>>

\* a change of one field; after the first submit the changed field is
\* revalidated (reValidateMode onChange)
TypeField(field, v, err) ==
    /\ isPopoverOpen
    /\ form[field] # v
    /\ form' = [form EXCEPT ![field] = v]
    /\ errors' = IF isSubmitted THEN [errors EXCEPT ![field] = err] ELSE errors
    /\ UNCHANGED <<isSubmitted, isSubmitting, isPopoverOpen, netVars, deleteUi,
                   queryVars, toast, docVars>>

TypeName(S) == \E v \in S : TypeField("name", v, NameError(v))
TypeAge(S) == \E v \in S : TypeField("age", v, AgeError(v))
TypeDocument(S) == \E v \in S : TypeField("document", v, DocumentError(v))
TypePhone(S) == \E v \in S : TypeField("phone", v, PhoneError(v))

----
(* Submitting the form *)

IsValid(f) == Resolve(f) = NoErrors

\* a mutant that forgets the phone
RegisterPayloadNoPhone(data) ==
    [name |-> data.name, age |-> data.age,
     document |-> data.document, phone |-> <<>>]

\* the argument of registerPatientFn, lines 266-271
RegisterPayload(data) ==
    [name |-> data.name, age |-> data.age,
     document |-> data.document, phone |-> data.phone]

\* a mutant button that is never disabled
SubmitEnabledAlways == isPopoverOpen

\* the submit button can be pressed: the form is on screen and the button is
\* not disabled
SubmitEnabled == isPopoverOpen /\ ~isSubmitting

\* handleSubmit calls its callback only when the resolver reports no error
GatePasses(f) == IsValid(f)

\* onSubmit = handleSubmit(handleCreateNewPatient), up to the await of
\* registerPatientFn
Submit ==
    /\ SubmitEnabled
    /\ isSubmitted' = TRUE
    /\ errors' = Resolve(form)
    /\ IF GatePasses(form)
       THEN /\ isSubmitting' = TRUE
            /\ regs' = regs (+) One([payload |-> RegisterPayload(form), st |-> "sent"])
       ELSE /\ isSubmitting' = isSubmitting
            /\ regs' = regs
    /\ UNCHANGED <<form, isPopoverOpen, dels, store, nextId, deleteUi, queryVars,
                   toast, docVars>>

----
(* A handler suspended in its mutation's onSuccess, at                       *)
(* `await queryClient.invalidateQueries(...)`.  The promise settles when the *)
(* refetch it started succeeds, fails or is cancelled by a later invalidation *)
(* (cancelRefetch), so at most one handler waits at a time; its continuation  *)
(* runs in the step that settles the promise.                                 *)

RegWaiting == {c \in BagToSet(regs) : c.st = "waiting"}
DelWaiting == {c \in BagToSet(dels) : c.st = "waiting"}

RegsResumed == [c \in BagToSet(regs) \ RegWaiting |-> regs[c]]
DelsResumed == [c \in BagToSet(dels) \ DelWaiting |-> dels[c]]

\* reset(), line 273
FormAfterRegister == EmptyForm

\* setIsPopoverOpen(false), line 274
PopoverAfterRegister == FALSE

\* the rest of handleCreateNewPatient (lines 273-280) and of handleDeletePatient
\* (lines 296-300) for the handlers that waited
Resume ==
    /\ form' = IF RegWaiting # {} THEN FormAfterRegister ELSE form
    /\ errors' = IF RegWaiting # {} THEN NoErrors ELSE errors
    /\ isSubmitted' = IF RegWaiting # {} THEN FALSE ELSE isSubmitted
    /\ isSubmitting' = IF RegWaiting # {} THEN FALSE ELSE isSubmitting
    /\ isPopoverOpen' = IF RegWaiting # {} THEN PopoverAfterRegister ELSE isPopoverOpen
    /\ toast' = IF RegWaiting # {} THEN ToastRegistered
                ELSE IF DelWaiting # {} THEN ToastDeleted
                ELSE toast

----
(* The "patients" query *)

\* a mutant onSuccess that does not invalidate
NoInvalidate ==
    /\ invalidations' = invalidations
    /\ UNCHANGED <<stale, fetching, fetchSnap>>

\* queryClient.invalidateQueries({ queryKey: ['patients'] }): the query is
\* marked stale and refetched, a fetch under way is cancelled
Invalidate ==
    /\ invalidations' = (invalidations + 1) % InvalidationWrap
    /\ stale' = TRUE
    /\ fetching' = "sent"
    /\ fetchSnap' = {}

\* the remote store answers the list request
ServerList ==
    /\ fetching = "sent"
    /\ fetching' = "answered"
    /\ fetchSnap' = store
    /\ UNCHANGED <<formVars, netVars, deleteUi, rendered, stale, invalidations,
                   toast, docVars>>

\* a row that is no longer rendered takes its menu and dialog with it
UiAfterRender(rows) == IF deleteUi.row \in rows THEN deleteUi ELSE UiClosed

\* the answer arrives: the parent passes the new list as `data`
RefetchDone ==
    /\ fetching = "answered"
    /\ fetching' = "idle"
    /\ rendered' = fetchSnap
    /\ fetchSnap' = {}
    /\ stale' = FALSE
    /\ deleteUi' = UiAfterRender(fetchSnap)
    /\ regs' = RegsResumed
    /\ dels' = DelsResumed
    /\ Resume
    /\ UNCHANGED <<store, nextId, invalidations, docVars>>

\* the list request fails: the rendered list stays
RefetchFail ==
    /\ fetching # "idle"
    /\ fetching' = "idle"
    /\ fetchSnap' = {}
    /\ regs' = RegsResumed
    /\ dels' = DelsResumed
    /\ Resume
    /\ UNCHANGED <<store, nextId, deleteUi, rendered, stale, invalidations, docVars>>

----
(* The register mutation *)

\* the remote store creates the patient and assigns its id
ServerRegister ==
    \E c \in BagToSet(regs) :
        /\ c.st = "sent"
        /\ nextId <= MaxId
        /\ store' = store \cup {nextId}
        /\ nextId' = nextId + 1
        /\ regs' = (regs (-) One(c)) (+) One([c EXCEPT !.st = "ok"])
        /\ UNCHANGED <<formVars, dels, deleteUi, queryVars, toast, docVars>>

\* registerPatient resolves: onSuccess (lines 252-254) invalidates and waits
RegisterSucceeds ==
    \E c \in BagToSet(regs) :
        /\ c.st = "ok"
        /\ Invalidate
        /\ regs' = (RegsResumed (-) One(c)) (+) One([c EXCEPT !.st = "waiting"])
        /\ dels' = DelsResumed
        /\ Resume
        /\ UNCHANGED <<store, nextId, deleteUi, rendered, docVars>>

\* a mutant catch block that closes the popover
PopoverAfterFailureClosed == FALSE

\* the catch block of handleCreateNewPatient does not touch the popover
PopoverAfterFailure == isPopoverOpen

\* registerPatient rejects: the catch block, lines 281-289
RegisterFails ==
    \E c \in BagToSet(regs), e \in Errors :
        /\ c.st = "sent"
        /\ regs' = regs (-) One(c)
        /\ toast' = ToastError(e)
        /\ isSubmitting' = FALSE
        /\ isPopoverOpen' = PopoverAfterFailure
        /\ UNCHANGED <<form, errors, isSubmitted, dels, store, nextId, deleteUi,
                       queryVars, docVars>>

----
(* The actions menu, the confirmation dialog and the delete mutation *)

\* DropdownMenuTrigger of a rendered row
OpenMenu ==
    \E id \in rendered :
        /\ deleteUi = UiClosed
        /\ deleteUi' = [row |-> id, step |-> "menu"]
        /\ UNCHANGED <<formVars, netVars, queryVars, toast, docVars>>

\* a mutant menu item that calls handleDeletePatient itself
SelectExcluirDeletes ==
    /\ deleteUi.step = "menu"
    /\ BagCardinality(dels) < MaxInFlight
    /\ deleteUi' = UiClosed
    /\ dels' = dels (+) One([id |-> deleteUi.row, st |-> "sent"])
    /\ UNCHANGED <<formVars, regs, store, nextId, queryVars, toast, docVars>>

\* DropdownMenuItem 'Excluir' (lines 182-188): the menu stays, the dialog opens
SelectExcluir ==
    /\ deleteUi.step = "menu"
    /\ deleteUi' = [deleteUi EXCEPT !.step = "dialog"]
    /\ UNCHANGED <<formVars, netVars, queryVars, toast, docVars>>

\* AlertDialogCancel, Escape, or the menu dismissed
CancelDelete ==
    /\ deleteUi.step # "closed"
    /\ deleteUi' = UiClosed
    /\ UNCHANGED <<formVars, netVars, queryVars, toast, docVars>>

\* a mutant action that leaves the dialog open
UiAfterConfirmOpen == deleteUi

\* AlertDialogAction closes its dialog
UiAfterConfirm == UiClosed

\* patient.id of the row the dialog belongs to, line 202
ConfirmedId == deleteUi.row

\* AlertDialogAction onClick: handleDeletePatient(patient.id) up to the await
ConfirmDelete ==
    /\ deleteUi.step = "dialog"
    /\ BagCardinality(dels) < MaxInFlight
    /\ dels' = dels (+) One([id |-> ConfirmedId, st |-> "sent"])
    /\ deleteUi' = UiAfterConfirm
    /\ UNCHANGED <<formVars, regs, store, nextId, queryVars, toast, docVars>>

\* the remote store deletes the patient
ServerDelete ==
    \E c \in BagToSet(dels) :
        /\ c.st = "sent"
        /\ c.id \in store
        /\ store' = store \ {c.id}
        /\ dels' = (dels (-) One(c)) (+) One([c EXCEPT !.st = "ok"])
        /\ UNCHANGED <<formVars, regs, nextId, deleteUi, queryVars, toast, docVars>>

\* deletePatient resolves: onSuccess (lines 259-261) invalidates and waits
DeleteSucceeds ==
    \E c \in BagToSet(dels) :
        /\ c.st = "ok"
        /\ Invalidate
        /\ dels' = (DelsResumed (-) One(c)) (+) One([c EXCEPT !.st = "waiting"])
        /\ regs' = RegsResumed
        /\ Resume
        /\ UNCHANGED <<store, nextId, deleteUi, rendered, docVars>>

\* a mutant catch block that invalidates as well
DeleteFailsInvalidating ==
    \E c \in BagToSet(dels), e \in Errors :
        /\ c.st = "sent"
        /\ dels' = DelsResumed (-) One(c)
        /\ regs' = RegsResumed
        /\ Invalidate
        /\ form' = form /\ errors' = errors /\ isSubmitted' = isSubmitted
        /\ isSubmitting' = (isSubmitting /\ RegWaiting = {})
        /\ isPopoverOpen' = isPopoverOpen
        /\ toast' = ToastError(e)
        /\ UNCHANGED <<store, nextId, deleteUi, rendered, docVars>>

\* deletePatient rejects: the catch block, lines 301-309
DeleteFails ==
    \E c \in BagToSet(dels), e \in Errors :
        /\ c.st = "sent"
        /\ dels' = dels (-) One(c)
        /\ toast' = ToastError(e)
        /\ UNCHANGED <<formVars, regs, store, nextId, deleteUi, queryVars, docVars>>

----
(* The whole table, with few form inputs *)

Next ==
    \/ OpenPopover
    \/ ClosePopover
    \/ TypeName(NameFew)
    \/ TypeAge(AgeFew)
    \/ TypeDocument(DocumentFew)
    \/ TypePhone(PhoneFew)
    \/ Submit
    \/ ServerRegister
    \/ RegisterSucceeds
    \/ RegisterFails
    \/ OpenMenu
    \/ SelectExcluir
    \/ CancelDelete
    \/ ConfirmDelete
    \/ ServerDelete
    \/ DeleteSucceeds
    \/ DeleteFails
    \/ ServerList
    \/ RefetchDone
    \/ RefetchFail

Spec == Init /\ [][Next]_vars

----
(* The intake workflow alone, with the form inputs that try every rule *)

NextForm ==
    \/ OpenPopover
    \/ ClosePopover
    \/ TypeName(NameInputs)
    \/ TypeAge(AgeInputs)
    \/ TypeDocument(DocumentInputs)
    \/ TypePhone(PhoneInputs)
    \/ Submit
    \/ ServerRegister
    \/ RegisterSucceeds
    \/ RegisterFails
    \/ ServerList
    \/ RefetchDone
    \/ RefetchFail

SpecForm == Init /\ [][NextForm]_vars

----
(* One document from the keyboard to the cell: the validator, the register  *)
(* call's argument, the remote store keeping what it was sent, the cell      *)

\* the characters the validator is tried on: a digit and two non-digits
DocAlphabet == {"7", ".", "x"}

InitDoc ==
    /\ form = EmptyForm
    /\ errors = NoErrors
    /\ isSubmitted = FALSE
    /\ isSubmitting = FALSE
    /\ isPopoverOpen = TRUE
    /\ regs = EmptyBag
    /\ dels = EmptyBag
    /\ deleteUi = UiClosed
    /\ store = 1..InitPatients
    /\ nextId = InitPatients + 1
    /\ rendered = 1..InitPatients
    /\ fetching = "idle"
    /\ fetchSnap = {}
    /\ stale = FALSE
    /\ toast = NoToast
    /\ invalidations = 0
    /\ docInput = <<>>
    /\ docStage = "typing"
    /\ docStored = <<>>
    /\ docLabel = [prefix |-> "", mask |-> "", arg |-> <<>>]

\* one more character of the string
DocType ==
    \E c \in DocAlphabet :
        /\ docStage = "typing"
        /\ Len(docInput) < MaxStrLen
        /\ docInput' = Append(docInput, c)
        /\ UNCHANGED <<formVars, netVars, deleteUi, queryVars, toast, docStage,
                       docStored, docLabel>>

\* the schema's document rule applied to the string
DocValidate ==
    /\ docStage = "typing"
    /\ docStage' = IF DocumentRule(docInput) THEN "accepted" ELSE "rejected"
    /\ UNCHANGED <<formVars, netVars, deleteUi, queryVars, toast, docInput,
                   docStored, docLabel>>

\* the field takes at most DocumentMaxLength characters (maxLength, line 366);
\* the register call carries the accepted document and the store keeps it
DocRegister ==
    /\ docStage = "accepted"
    /\ Len(docInput) <= DocumentMaxLength
    /\ docStored' = RegisterPayload([EmptyForm EXCEPT !.document = docInput]).document
    /\ docStage' = "stored"
    /\ UNCHANGED <<formVars, netVars, deleteUi, queryVars, toast, docInput, docLabel>>

\* the row of the stored patient is rendered
DocRender ==
    /\ docStage = "stored"
    /\ docLabel' = DocumentCell(docStored)
    /\ docStage' = "shown"
    /\ UNCHANGED <<formVars, netVars, deleteUi, queryVars, toast, docInput, docStored>>

NextDoc ==
    \/ DocType
    \/ DocValidate
    \/ DocRegister
    \/ DocRender

SpecDoc == InitDoc /\ [][NextDoc]_vars

----
(* What the properties below observe *)

\* the number of digits of a string, counted without the validator's helpers
DigitCount(s) == Cardinality({i \in 1..Len(s) : s[i] \in Digits})

\* the four field rules as the data model states them
NameRuleHolds(f) == Len(f.name) >= 3
AgeRuleHolds(f) == ~f.age.nan /\ f.age.val >= 0 /\ f.age.val <= 120
DocumentRuleHolds(f) == DigitCount(f.document) \in {9, 11}
PhoneRuleHolds(f) == f.phone = <<>> \/ DigitCount(f.phone) = 11
FieldRulesHold(f) ==
    NameRuleHolds(f) /\ AgeRuleHolds(f) /\ DocumentRuleHolds(f) /\ PhoneRuleHolds(f)

\* calls of a bag in one of the given states
CallsIn(bag, sts) == {c \in BagToSet(bag) : c.st \in sts}
OnNetwork == {"sent", "ok"}

\* this step dispatches a register call / a delete call
RegDispatched == BagCardinality(regs') > BagCardinality(regs)
DelDispatched == BagCardinality(dels') > BagCardinality(dels)

\* this step delivers a rejection: a call that was sent leaves the network
RegRejected ==
    /\ BagCardinality(regs') < BagCardinality(regs)
    /\ \E c \in CallsIn(regs, {"sent"}) : CopiesIn(c, regs') < CopiesIn(c, regs)
DelRejected ==
    /\ BagCardinality(dels') < BagCardinality(dels)
    /\ \E c \in CallsIn(dels, {"sent"}) : CopiesIn(c, dels') < CopiesIn(c, dels)

\* this step delivers a success: a call the store served leaves the network
RegResolved == \E c \in CallsIn(regs, {"ok"}) : CopiesIn(c, regs') < CopiesIn(c, regs)
DelResolved == \E c \in CallsIn(dels, {"ok"}) : CopiesIn(c, dels') < CopiesIn(c, dels)

\* this step runs the rest of handleCreateNewPatient after the await
RegResumed == \E c \in CallsIn(regs, {"waiting"}) : CopiesIn(c, regs') < CopiesIn(c, regs)

InvalidatedOnce == invalidations' = (invalidations + 1) % InvalidationWrap
NotInvalidated ==
    /\ invalidations' = invalidations
    /\ stale' = stale
    /\ fetching' = fetching

\* this step hands the table the list a refetch was answered with
ListArrives ==
    /\ fetching = "answered"
    /\ fetching' = "idle"
    /\ rendered' = fetchSnap

----
(* C1: a register call is dispatched only by a submission whose form passes  *)
(* all four field rules; a submission in which a rule fails dispatches        *)
(* nothing, does not start submitting, and leaves a message on every failing  *)
(* field and on no other, the name and age messages being the stated ones.    *)
C1_ValidationGate ==
    [][ /\ RegDispatched => Submit /\ FieldRulesHold(form)
        /\ (Submit /\ ~FieldRulesHold(form)) =>
              /\ regs' = regs
              /\ ~isSubmitting'
              /\ (errors'.name # NoMsg) <=> ~NameRuleHolds(form)
              /\ (errors'.age # NoMsg) <=> ~AgeRuleHolds(form)
              /\ (errors'.document # NoMsg) <=> ~DocumentRuleHolds(form)
              /\ (errors'.phone # NoMsg) <=> ~PhoneRuleHolds(form)
              /\ Len(form.name) < 3 => errors'.name = "Digite o nome completo."
              /\ (~form.age.nan /\ form.age.val > 120) =>
                     errors'.age = "Idade muito alta."
              /\ (~form.age.nan /\ form.age.val < 0) =>
                     errors'.age = "Idade inválida."
      ]_vars

\* "Jo", 121, a ten-digit document and a ten-digit phone were submitted: four
\* messages at once and nothing sent
C1_Witness ==
    /\ form.name = <<"J", "o">>
    /\ form.age = Num(121)
    /\ errors.name = MsgName
    /\ errors.age = MsgAgeMax
    /\ errors.document = MsgDocument
    /\ errors.phone = MsgPhone
    /\ regs = EmptyBag
    /\ ~isSubmitting

----
(* C2: submitting a valid form dispatches exactly one register call carrying *)
(* the name, age, document and phone entered; the success of the call        *)
(* invalidates "patients" exactly once, and the handler then clears the form, *)
(* closes the popover and shows the success notification without             *)
(* invalidating again.                                                        *)
C2_RegisterSuccess ==
    [][ /\ (Submit /\ FieldRulesHold(form)) =>
              regs' = regs (+) One([payload |-> [name |-> form.name,
                                                  age |-> form.age,
                                                  document |-> form.document,
                                                  phone |-> form.phone],
                                    st |-> "sent"])
        /\ RegDispatched => BagCardinality(regs') = BagCardinality(regs) + 1
        /\ RegResolved => InvalidatedOnce
        /\ RegResumed =>
              /\ form' = EmptyForm
              /\ ~isPopoverOpen'
              /\ toast' = ToastRegistered
              /\ (invalidations' # invalidations) => (DelResolved /\ InvalidatedOnce)
      ]_vars

\* a register with a phone went through: served, invalidated once, resumed
C2_Witness ==
    /\ toast = ToastRegistered
    /\ form = EmptyForm
    /\ ~isPopoverOpen
    /\ regs = EmptyBag
    /\ dels = EmptyBag
    /\ invalidations = 1
    /\ store = 1..(InitPatients + 1)

----
(* C3, as claimed: when a register call fails the popover is open.           *)
C3_PopoverOpenAfterFailure ==
    [][RegRejected => isPopoverOpen']_vars

(* C3, amended: the failure of a register call leaves the popover as it was, *)
(* leaves the form's values, shows the failure notification with the         *)
(* translated message of the error, invalidates nothing and re-enables the   *)
(* submit control; a register call is dispatched by a submission only.       *)
C3_RegisterFailure ==
    [][ /\ RegRejected =>
              /\ isPopoverOpen' = isPopoverOpen
              /\ form' = form
              /\ toast'.variant = "destructive"
              /\ \E e \in Errors : toast'.description = AxiosErrorHandler(e)
              /\ NotInvalidated
              /\ rendered' = rendered
              /\ regs' = EmptyBag
              /\ ~isSubmitting'
        /\ RegDispatched => Submit
      ]_vars

\* a register call has failed: the form still holds what was submitted, the
\* popover is open, the failure is on screen
C3_Witness ==
    /\ toast.variant = "destructive"
    /\ isPopoverOpen
    /\ isSubmitted
    /\ FieldRulesHold(form)
    /\ errors = NoErrors
    /\ regs = EmptyBag
    /\ ~isSubmitting
    /\ dels = EmptyBag
    /\ deleteUi = UiClosed
    /\ invalidations = 0
    /\ store = 1..InitPatients

----
(* C4: a delete call is dispatched only by the confirm action of the open    *)
(* dialog, one call with the id of the dialog's row; selecting 'Excluir'     *)
(* and cancelling dispatch nothing; each successful delete invalidates       *)
(* "patients" exactly once.                                                  *)
C4_TwoStepDelete ==
    [][ /\ DelDispatched =>
              /\ deleteUi.step = "dialog"
              /\ deleteUi.row \in rendered
              /\ dels' = dels (+) One([id |-> deleteUi.row, st |-> "sent"])
        /\ (deleteUi.step = "menu" /\ deleteUi'.step = "dialog") => dels' = dels
        /\ deleteUi.step = "menu" => ~DelDispatched
        /\ CancelDelete => dels' = dels
        /\ DelResolved => InvalidatedOnce
      ]_vars

\* a confirmed delete has been served and has invalidated once
C4_Witness ==
    /\ CallsIn(dels, {"waiting"}) # {}
    /\ invalidations = 1
    /\ regs = EmptyBag
    /\ ~isSubmitted
    /\ deleteUi = UiClosed

----
----
(* C6: the document validator answers for every string, and accepts it       *)
(* exactly when it holds 9 or 11 digits.                                     *)
C6_DocumentValidator ==
    /\ docStage = "typing" => ENABLED DocValidate
    /\ docStage = "rejected" => DigitCount(docInput) \notin {9, 11}
    /\ docStage \in {"accepted", "stored", "shown"} => DigitCount(docInput) \in {9, 11}

\* a string of 9 digits and other characters was accepted
C6_Witness ==
    /\ docStage = "accepted"
    /\ DigitCount(docInput) = 9
    /\ Len(docInput) = MaxStrLen

----
(* C7: the cell of a stored document that the validator accepted and the     *)
(* register call carried as entered is labelled "RG:" when the document has  *)
(* 9 digits and "CPF:" when it has 11.                                       *)
C7_DocumentLabel ==
    docStage = "shown" =>
        /\ DigitCount(docStored) = 9 => docLabel.prefix = "RG:"
        /\ DigitCount(docStored) = 11 => docLabel.prefix = "CPF:"

----
(* C8, as claimed: the submit control is disabled exactly while a register   *)
(* call is on the network.                                                   *)
C8_DisabledIffOnNetwork ==
    isSubmitting <=> CallsIn(regs, OnNetwork) # {}

(* C8, amended: the submit control is disabled exactly from the dispatch of  *)
(* a register call until the call has failed or, once it succeeded, until    *)
(* the awaited invalidation has settled and the handler has resumed; so at   *)
(* most one register call exists at a time.                                  *)
C8_DisabledWhileHandling ==
    /\ isSubmitting <=> regs # EmptyBag
    /\ BagCardinality(regs) <= 1
    /\ CallsIn(regs, {"waiting"}) # {} => stale

\* the call has succeeded, the refetch is under way, the control is disabled
C8_Witness ==
    /\ isSubmitting
    /\ isPopoverOpen
    /\ CallsIn(regs, {"waiting"}) # {}
    /\ CallsIn(regs, OnNetwork) = {}
    /\ fetching = "sent"

----
(* C9, as claimed: while a delete call is on the network no further delete   *)
(* call is dispatched.                                                       *)
C9_OneDeleteAtATime ==
    [][CallsIn(dels, OnNetwork) # {} => ~DelDispatched]_vars

(* C9, amended: a delete call on the network does not hold back the next:    *)
(* every confirmation dispatches one call and closes its dialog, whatever    *)
(* is in flight, and a further call needs a further confirmation.            *)
C9_ConfirmClosesDialog ==
    [][ /\ DelDispatched =>
              /\ BagCardinality(dels') = BagCardinality(dels) + 1
              /\ deleteUi'.step = "closed"
        /\ (deleteUi.step = "dialog" /\ BagCardinality(dels) < MaxInFlight) =>
              ENABLED ConfirmDelete
      ]_vars

\* two delete calls for the same patient are on the network
C9_Witness ==
    \E c \in BagToSet(dels) : c.st = "sent" /\ CopiesIn(c, dels) = 2

----
(* C10: a register call and a delete call are in flight together; each       *)
(* success invalidates "patients" once; the rendered list changes only when  *)
(* a refetched list arrives; and when no call is left, no fetch is under way *)
(* and the query is not stale, the rendered list is the remote store's.      *)
Quiescent ==
    /\ regs = EmptyBag
    /\ dels = EmptyBag
    /\ fetching = "idle"
    /\ ~stale

====
